---- MODULE Spec2Model ----
(***************************************************************************)
(* B+tree index (src/index/b_plus_tree.cpp) over pages of a buffer pool.   *)
(* The tree algorithms (Insert, Remove, GetValue, Split, InsertIntoParent, *)
(* CoalesceOrRedistribute, Coalesce, Redistribute, AdjustRoot,             *)
(* UpdateRootPageId, GetLeafPage) are translated from the source.  The     *)
(* leaf/internal page classes, the header page and the buffer pool are not *)
(* part of the source file; they follow sections 3, 4.1, 4.4 and 6 of the  *)
(* specification.                                                          *)
(***************************************************************************)
EXTENDS Integers, Sequences, FiniteSets, TLC

(* ---------------------------- bounds ----------------------------------- *)
MaxKey == 5
MaxPages == 6
MaxStored == 5
MaxTreeKey == 5
MaxTreeStored == 5
MaxTreePages == 13
MaxPinKey == 4
MaxPinStored == 4
MaxConcKey == 4
MaxConcStored == 4

(* --------------------------- constants --------------------------------- *)
INVALID_PAGE_ID == -1
NO_RECORD == -2
DEAD_PAGE_ID == -3

Keys == 1..MaxKey
TreeKeys == 1..MaxTreeKey
Values == {100, 200}
\* the record ids a caller passes with key k
ValuesOf(k) == IF k = 1 THEN Values ELSE {100}
\* the page ids of a buffer pool for a tree instance c
PageIds(c) == IF c[1] >= 4 THEN 1..MaxPages ELSE 1..MaxTreePages
\* (leaf max_size, internal max_size) of a tree instance
Configs == {<<4, 5>>}
TreeConfigs == {<<1, 3>>, <<2, 3>>, <<4, 5>>}
PinConfigs == {<<1, 3>>, <<2, 3>>}
PinKeys == 1..MaxPinKey
\* a budget of NewPage calls no operation uses up
Unlimited == 99
\* how many NewPage calls of one operation the buffer pool can serve
AllocBudgets == {0, 1, 2, Unlimited}

\* the threads that call the index
Threads == {1, 2}
ConcConfigs == {<<1, 3>>, <<3, 3>>}
ConcKeys == 1..MaxConcKey
\* the operations a thread calls, with the mode GetLeafPage is given
Ops == {"get", "insert", "remove"}
ModeOf(op) == IF op = "get" THEN 0 ELSE IF op = "insert" THEN 1 ELSE 2

VARIABLES root_page_id, pages, header, cfg, expected, phase, last,
          pin_count, latches, thr, unpinned
vars == <<root_page_id, pages, header, cfg, expected, phase, last,
          pin_count, latches, thr, unpinned>>

(* ------------------------- page node contracts ------------------------- *)
FreePage == [kind |-> "free", parent |-> INVALID_PAGE_ID,
             next |-> INVALID_PAGE_ID, max |-> 0, ents |-> <<>>]

\* B_PLUS_TREE_LEAF_PAGE_TYPE::Init(page_id, parent_id)
LeafInit(parent, c) ==
  [kind |-> "leaf", parent |-> parent, next |-> INVALID_PAGE_ID,
   max |-> c[1], ents |-> <<>>]

\* BPInternalPage::Init(page_id, parent_id)
InternalInit(parent, c) ==
  [kind |-> "internal", parent |-> parent, next |-> INVALID_PAGE_ID,
   max |-> c[2], ents |-> <<>>]

IsLeafPage(n) == n.kind = "leaf"
GetSize(n) == Len(n.ents)
GetMaxSize(n) == n.max
\* min_size = ceil(max_size / 2), for every node
GetMinSize(n) == (n.max + 1) \div 2

\* 0-based accessors, as in the page classes
KeyAt(n, i) == n.ents[i + 1][1]
ValueAt(n, i) == n.ents[i + 1][2]

SeqInsertAt(s, i, e) == SubSeq(s, 1, i) \o <<e>> \o SubSeq(s, i + 1, Len(s))
SeqRemoveAt(s, i) == SubSeq(s, 1, i) \o SubSeq(s, i + 2, Len(s))
SetMin(S) == CHOOSE x \in S : \A y \in S : x <= y
SetMax(S) == CHOOSE x \in S : \A y \in S : x >= y

\* leaf.key_index(k): first index with key_i >= k (the insertion position)
KeyIndex(n, k) ==
  LET S == {i \in 0..(GetSize(n) - 1) : KeyAt(n, i) >= k}
  IN IF S = {} THEN GetSize(n) ELSE SetMin(S)

\* leaf.lookup(k) -> found: the search lands on the insertion position
LeafFound(n, k) ==
  LET i == KeyIndex(n, k) IN i < GetSize(n) /\ KeyAt(n, i) = k

LeafValue(n, k) == ValueAt(n, KeyIndex(n, k))

\* leaf.insert(k, v): inserts in order; no-op if k is already present
LeafInsert(n, k, v) ==
  IF LeafFound(n, k) THEN n
  ELSE [n EXCEPT !.ents = SeqInsertAt(n.ents, KeyIndex(n, k), <<k, v>>)]

\* leaf.remove_and_delete(k): removes k if present
RemoveAndDeleteRecord(n, k) ==
  IF LeafFound(n, k)
  THEN [n EXCEPT !.ents = SeqRemoveAt(n.ents, KeyIndex(n, k))]
  ELSE n

\* internal.lookup(k): the greatest child_i such that i = 0 or key_i <= k
InternalLookup(n, k) ==
  ValueAt(n, SetMax({i \in 0..(GetSize(n) - 1) : i = 0 \/ KeyAt(n, i) <= k}))

\* internal.value_index(child_id): reverse lookup, -1 when absent
ValueIndex(n, c) ==
  LET S == {i \in 0..(GetSize(n) - 1) : ValueAt(n, i) = c}
  IN IF S = {} THEN -1 ELSE SetMin(S)

SetKeyAt(n, i, k) == [n EXCEPT !.ents[i + 1] = <<k, n.ents[i + 1][2]>>]
SetValueAt(n, i, c) == [n EXCEPT !.ents[i + 1] = <<n.ents[i + 1][1], c>>]

\* internal.populate_new_root(left, k, right) = [(0,left),(k,right)]
PopulateNewRoot(n, l, k, r) == [n EXCEPT !.ents = <<<<0, l>>, <<k, r>>>>]

\* internal.insert_node_after(old_child, k, new_child)
InsertNodeAfter(n, old, k, new) ==
  [n EXCEPT !.ents = SeqInsertAt(n.ents, ValueIndex(n, old) + 1, <<k, new>>)]

\* internal.remove(i)
InternalRemove(n, i) == [n EXCEPT !.ents = SeqRemoveAt(n.ents, i)]

\* children named by a sequence of internal entries
ChildrenOf(es) == {es[i][2] : i \in 1..Len(es)}

\* rewrite parent_page_id of the pages in cs (through the buffer pool)
Reparent(pg, cs, p) ==
  [q \in DOMAIN pg |->
     IF q \in cs /\ pg[q].kind # "free" THEN [pg[q] EXCEPT !.parent = p]
     ELSE pg[q]]

\* first index of the upper half: entries ceil(size/2) .. move to the sibling
HalfIndex(n) == (GetSize(n) + 1) \div 2

\* leaf.move_half_to(sibling) / internal.move_half_to(sibling, buffer_pool)
MoveHalfTo(pg, id, sib) ==
  LET n == pg[id]
      h == HalfIndex(n)
      lo == SubSeq(n.ents, 1, h)
      hi == SubSeq(n.ents, h + 1, GetSize(n))
  IN IF IsLeafPage(n)
     THEN [pg EXCEPT ![sib] = [@ EXCEPT !.ents = hi, !.next = n.next],
                     ![id] = [@ EXCEPT !.ents = lo, !.next = sib]]
     ELSE Reparent([pg EXCEPT ![sib] = [@ EXCEPT !.ents = hi],
                              ![id] = [@ EXCEPT !.ents = lo]],
                   ChildrenOf(hi), sib)

(* ------------------------------ buffer pool ---------------------------- *)
\* page ids some live page still names (child entries, next_leaf, parent)
Referenced(pg) ==
  UNION {({pg[q].next, pg[q].parent} \cup
          (IF pg[q].kind = "internal" THEN ChildrenOf(pg[q].ents) ELSE {}))
         : q \in {x \in DOMAIN pg : pg[x].kind # "free"}}

\* ids new_page can hand out: never an id that was handed out before and is
\* still named somewhere (the disk manager does not reuse ids)
Allocable(pg) == {q \in DOMAIN pg : pg[q].kind = "free"} \ Referenced(pg)

\* BufferPoolManager::NewPage: the page id it returns
NewPageId(pg) == SetMin(Allocable(pg))

\* BufferPoolManager::DeletePage
DeletePage(pg, id) == [pg EXCEPT ![id] = FreePage]

\* BufferPoolManager::NewPage: fails (nullptr) when the pool can give no more
\* pages to this call (.budget), else hands out a pinned page, id in .newid
NewPage(t) ==
  IF t.budget = 0 THEN [t EXCEPT !.oom = TRUE, !.newid = INVALID_PAGE_ID]
  ELSE LET nid == NewPageId(t.pages)
       IN [t EXCEPT !.budget = @ - 1, !.newid = nid, !.pins[nid] = 1]

\* BufferPoolManager::FetchPage: one more pin
FetchPage(t, id) == [t EXCEPT !.pins[id] = @ + 1]

\* the end of a scoped fetch (GetInternalPageSP, BufferPageGuard): one pin
\* less, also when an exception unwinds the scope
ReleasePage(t, id) == [t EXCEPT !.pins[id] = IF @ > 0 THEN @ - 1 ELSE 0]

\* BufferPoolManager::UnpinPage(page_id, is_dirty)
\* (the call is remembered in .unp with its dirty flag and whether the page
\* differs from what it was when the operation began)
UnpinPage(t, id, dirty) ==
  [ReleasePage(t, id) EXCEPT
     !.unp = @ \cup {<<id, dirty, t.pages[id] # t.orig[id]>>}]

\* BPlusTree::GetPage(page_id): the page fetched (pinned)
GetPage(t, id) == FetchPage(t, id)

(* --------------------- latches and the work set ------------------------ *)
\* the latch mode of a traversal: read for get (0), write for insert (1) and
\* remove (2)
LatchMode(mode) == IF mode = 0 THEN "r" ELSE "w"

\* lockFor(mode, page); the pages the operation has write-latched since its
\* current step began are remembered in .held
LockFor(t, mode, id) ==
  [t EXCEPT !.latches = @ \cup {<<t.tid, id, LatchMode(mode)>>},
            !.held = IF mode = 0 THEN @ ELSE @ \cup {id}]

\* unlockFor(mode, page)
UnlockFor(t, mode, id) ==
  [t EXCEPT !.latches = @ \ {<<t.tid, id, LatchMode(mode)>>}]

\* Transaction::AddIntoPageSet
AddIntoPageSet(t, id) == [t EXCEPT !.page_set = Append(@, id)]

\* GetPage(page_id, transaction, mode): with a transaction the page is also
\* latched and recorded in the work set
GetPageLatched(t, id, mode) ==
  IF t.txn THEN AddIntoPageSet(LockFor(FetchPage(t, id), mode, id), id)
  ELSE FetchPage(t, id)

RECURSIVE ClearTxnWorkSet(_, _, _)
\* clearTxnWorkSet(transaction, mode, dirty): in the order of the work set,
\* each page is unlatched and unpinned, and deleted when it is in the
\* deleted-page set
ClearTxnWorkSet(t, mode, dirty) ==
  IF t.page_set = <<>> THEN t
  ELSE LET id == Head(t.page_set)
           t1 == UnpinPage(UnlockFor(t, mode, id), id, dirty)
           t2 == IF id \in t.deleted
                 THEN [t1 EXCEPT !.pages = DeletePage(t1.pages, id),
                                 !.freed = Append(@, id),
                                 !.deleted = @ \ {id}]
                 ELSE t1
       IN ClearTxnWorkSet([t2 EXCEPT !.page_set = Tail(@)], mode, dirty)

(* ------------------------------ header page ---------------------------- *)
\* HeaderPage::InsertRecord: fails when the name is already recorded
InsertRecord(h, root) == IF h = NO_RECORD THEN root ELSE h
\* HeaderPage::UpdateRecord: fails when the name is not recorded
UpdateRecord(h, root) == IF h = NO_RECORD THEN h ELSE root

\* BPlusTree::UpdateRootPageId(insert_record)
UpdateRootPageId(t, insert_record) ==
  [t EXCEPT !.header = IF insert_record THEN InsertRecord(t.header, t.root)
                       ELSE UpdateRecord(t.header, t.root)]

\* BPlusTree::IsEmpty
IsEmpty(t) == t.root = INVALID_PAGE_ID

(* ------------------------------- search -------------------------------- *)
\* the release rule of a descent that lets go of the ancestors at every
\* level
ReleasesEarly(mode, n) == TRUE

\* the release rule of the descent: after the child is latched the
\* ancestors in the work set are released for a read, for an insert when the
\* child is not full, for a remove when the child is above min_size
Releases(mode, n) ==
  \/ mode = 0
  \/ mode = 1 /\ GetMaxSize(n) > GetSize(n)
  \/ mode = 2 /\ GetMinSize(n) < GetSize(n)

\* GetLeafPage, the root part: the root page fetched, and with a transaction
\* latched and recorded in the work set (page_id = root_page_id holds when
\* no other thread runs); the page is left in .leaf
EnterRoot(t, mode) ==
  LET t1 == GetPage(t, t.root)
      t2 == IF t.txn
            THEN AddIntoPageSet(LockFor(t1, mode, t.root), t.root)
            ELSE t1
  IN [t2 EXCEPT !.leaf = t.root]

\* GetLeafPage, lines 637-660: the fetched child is latched, the ancestors in
\* the work set are released by the release rule, the child joins the work
\* set
LatchChild(t, next, mode) ==
  LET t2 == LockFor(t, mode, next)
      t3 == IF Releases(mode, t2.pages[next])
            THEN ClearTxnWorkSet(t2, mode, FALSE)
            ELSE t2
  IN [AddIntoPageSet(t3, next) EXCEPT !.leaf = next]

\* GetLeafPage, one round of the descent loop from internal page id: the
\* child fetched (and latched, ancestors released by the release rule), or
\* the parent unpinned when there is no transaction; the child is in .leaf
DescendStep(t, id, k, mode) ==
  LET next == InternalLookup(t.pages[id], k)
      t1 == GetPage(t, next)
  IN IF t.txn THEN LatchChild(t1, next, mode)
     ELSE [UnpinPage(t1, id, FALSE) EXCEPT !.leaf = next]

RECURSIVE Descend(_, _, _, _)
\* GetLeafPage, the descent loop from page id down to the leaf
Descend(t, id, k, mode) ==
  IF t.pages[id].kind = "internal"
  THEN LET t1 == DescendStep(t, id, k, mode) IN Descend(t1, t1.leaf, k, mode)
  ELSE [t EXCEPT !.leaf = id]

\* BPlusTree::GetLeafPage(key, transaction, mode): the leaf page id in
\* .leaf, INVALID_PAGE_ID for nullptr
GetLeafPage(t, k, mode) ==
  IF IsEmpty(t) THEN [t EXCEPT !.leaf = INVALID_PAGE_ID]
  ELSE Descend(EnterRoot(t, mode), t.root, k, mode)

\* GetValue after GetLeafPage returned leaf page id (lines 43-51)
LookupAtLeaf(t, id, k) ==
  LET out == IF LeafFound(t.pages[id], k)
             THEN <<"found", LeafValue(t.pages[id], k)>>
             ELSE <<"absent", 0>>
      t1 == IF t.txn THEN ClearTxnWorkSet(t, 0, FALSE)
            ELSE UnpinPage(t, id, FALSE)
  IN [t1 EXCEPT !.out = out]

\* the outcomes of dereferencing a null leaf pointer: undefined behaviour
NullLeafOutcomes ==
  {<<"fault", 0>>, <<"absent", 0>>} \cup {<<"found", v>> : v \in Values}

\* BPlusTree::GetValue: the set of states after it, each with its outcome
\* <<found, value>> or "fault" in .out.  On an empty tree GetLeafPage
\* returns nullptr and leaf->Lookup dereferences it: any outcome.
GetValue(t, k) ==
  LET t1 == GetLeafPage(t, k, 0) IN
  IF t1.leaf = INVALID_PAGE_ID
  THEN {[t1 EXCEPT !.out = o] : o \in NullLeafOutcomes}
  ELSE {LookupAtLeaf(t1, t1.leaf, k)}

\* what GetValue returns to its caller
GetOutcomes(t, k) == {x.out : x \in GetValue(t, k)}

(* ------------------------------ insertion ------------------------------ *)
\* Split that initialises every new page as a leaf page
SplitAsLeaf(t, id) ==
  LET t0 == NewPage(t)
      nid == t0.newid
      n == t.pages[id]
  IN IF t0.oom THEN t0
     ELSE [t0 EXCEPT !.pages = MoveHalfTo(
                       [t.pages EXCEPT ![nid] = LeafInit(n.parent, t.cfg)],
                       id, nid)]

\* BPlusTree::Split: new page of the same kind and parent, upper half moved
\* (bad_alloc, in .oom, when NewPage fails; the new page stays pinned)
Split(t, id) ==
  LET t0 == NewPage(t)
      nid == t0.newid
      n == t.pages[id]
      fresh == IF IsLeafPage(n) THEN LeafInit(n.parent, t.cfg)
               ELSE InternalInit(n.parent, t.cfg)
  IN IF t0.oom THEN t0
     ELSE [t0 EXCEPT !.pages =
             MoveHalfTo([t.pages EXCEPT ![nid] = fresh], id, nid)]

\* InsertIntoParent, old_node is the root, lines 181-188: a new internal
\* page is initialised and published as root_page_id (also in the header)
NewRootPublish(t, old, key, new) ==
  LET t0 == NewPage(t)
      rid == t0.newid
  IN IF t0.oom THEN t0
     ELSE [UpdateRootPageId(
             [t0 EXCEPT !.pages[rid] = InternalInit(INVALID_PAGE_ID, t.cfg),
                        !.root = rid],
             FALSE)
           EXCEPT !.pend = <<rid, old, key, new>>]

\* the root branch of InsertIntoParent without the two SetParentPageId calls
\* of lines 189-190
NewRootPopulateOnly(t) ==
  LET rid == t.pend[1]
      old == t.pend[2]
      key == t.pend[3]
      new == t.pend[4]
  IN [UnpinPage(
        [t EXCEPT !.pages = [@ EXCEPT ![rid] = PopulateNewRoot(@, old, key,
                                                               new)]],
        rid, TRUE)
      EXCEPT !.pend = <<>>]

\* InsertIntoParent, old_node is the root, lines 189-193: the children get
\* the new root as parent, the new root gets its two entries and is unpinned
NewRootPopulate(t) ==
  LET rid == t.pend[1]
      old == t.pend[2]
      key == t.pend[3]
      new == t.pend[4]
  IN [UnpinPage(
        [t EXCEPT !.pages = [@ EXCEPT ![old].parent = rid,
                                      ![new].parent = rid,
                                      ![rid] = PopulateNewRoot(@, old, key,
                                                               new)]],
        rid, TRUE)
      EXCEPT !.pend = <<>>]

RECURSIVE InsertIntoParent(_, _, _, _)
\* BPlusTree::InsertIntoParent(old_node, key, new_node).  The parent is held
\* by a scoped fetch and the new internal page by a guard, both released
\* when the call returns or an exception leaves it.  A call that runs alone
\* (.atomic) goes through the root branch in one piece; among other threads
\* the state in which root_page_id is published is visible to them, and the
\* rest of the branch (.pend) is a later step.
InsertIntoParent(t, old, key, new) ==
  LET parentPageId == t.pages[old].parent IN
  IF parentPageId = INVALID_PAGE_ID
  THEN LET t1 == NewRootPublish(t, old, key, new)
       IN IF t1.oom \/ ~t1.atomic THEN t1 ELSE NewRootPopulate(t1)
  ELSE LET t0 == FetchPage(t, parentPageId)
           ip == InsertNodeAfter(t.pages[parentPageId], old, key, new)
           t1 == [t0 EXCEPT !.pages[parentPageId] = ip]
           t4 == IF GetSize(ip) > GetMaxSize(ip)
                 THEN LET t2 == Split(t1, parentPageId)
                          nid == t2.newid
                      IN IF t2.oom THEN t2
                         ELSE ReleasePage(
                                InsertIntoParent(t2, parentPageId,
                                                 KeyAt(t2.pages[nid], 0),
                                                 nid),
                                nid)
                 ELSE t1
       IN ReleasePage(t4, parentPageId)

\* a split test that lets a leaf grow one entry past max_size
LeafOverflowsLate(n) == GetSize(n) > GetMaxSize(n) + 1

\* the split test of InsertIntoLeaf
LeafOverflows(n) == GetSize(n) > GetMaxSize(n)

\* InsertIntoLeaf, lines 129-135 (the leaf page id is kept in .leaf, the new
\* leaf of a split in .sib): the new leaf of a split is unpinned, then
\* the work set is cleared or, without a transaction, the leaf unpinned
InsertTail(t) ==
  LET t1 == IF t.sib # INVALID_PAGE_ID THEN UnpinPage(t, t.sib, TRUE) ELSE t
  IN IF t.txn THEN ClearTxnWorkSet(t1, 1, TRUE)
     ELSE UnpinPage(t1, t.leaf, TRUE)

\* InsertIntoLeaf after GetLeafPage returned leaf page id (lines 119-138).
\* An exception from Split or InsertIntoParent (.oom) leaves the function
\* at once: nothing below the throwing call is executed.
InsertAtLeaf(t, id, k, v) ==
  LET originalSize == GetSize(t.pages[id])
      lp == LeafInsert(t.pages[id], k, v)
      newSize == GetSize(lp)
      t1 == [t EXCEPT !.pages[id] = lp, !.leaf = id,
                      !.sib = INVALID_PAGE_ID,
                      !.ret = (originalSize # newSize)]
  IN IF LeafOverflows(lp)
     THEN LET t2 == Split(t1, id)
              nid == t2.newid
          IN IF t2.oom THEN t2
             ELSE LET t3 == InsertIntoParent(
                              [t2 EXCEPT !.sib = nid], id,
                              KeyAt(t2.pages[id], GetSize(t2.pages[id]) - 1),
                              nid)
                  IN IF t3.oom \/ t3.pend # <<>> THEN t3 ELSE InsertTail(t3)
     ELSE InsertTail(t1)

\* BPlusTree::InsertIntoLeaf: the state after it, and its return value in .ret
InsertIntoLeaf(t, k, v) ==
  LET t0 == GetLeafPage(t, k, 1) IN
  IF t0.leaf = INVALID_PAGE_ID THEN [t0 EXCEPT !.ret = FALSE]
  ELSE InsertAtLeaf(t0, t0.leaf, k, v)

\* StartNewTree, lines 86-93: a new leaf page, initialised and unpinned
NewTreePage(t) ==
  LET t0 == NewPage(t)
      pid == t0.newid
  IN IF t0.oom THEN t0
     ELSE UnpinPage([t0 EXCEPT !.pages[pid] = LeafInit(INVALID_PAGE_ID,
                                                       t.cfg)],
                    pid, TRUE)

\* StartNewTree, lines 95-100: compare-and-set of root_page_id from INVALID
\* to page pid; the page is deleted when the compare-and-set fails
NewTreeInstall(t, pid) ==
  IF t.root = INVALID_PAGE_ID
  THEN UpdateRootPageId([t EXCEPT !.root = pid], TRUE)
  ELSE [t EXCEPT !.pages = DeletePage(t.pages, pid),
                 !.freed = Append(@, pid)]

\* BPlusTree::StartNewTree
StartNewTree(t, k, v) ==
  LET t1 == NewTreePage(t)
  IN IF t1.oom THEN t1
     ELSE InsertIntoLeaf(NewTreeInstall(t1, t1.newid), k, v)

\* BPlusTree::Insert
Insert(t, k, v) ==
  IF IsEmpty(t) THEN [StartNewTree(t, k, v) EXCEPT !.ret = TRUE]
  ELSE InsertIntoLeaf(t, k, v)

(* ------------------- redistribution and merge primitives --------------- *)
\* leaf/internal move_first_to_end_of(target): neighbor nb is the right
\* sibling of nd; the parent's separator key for nb becomes nb.key_at(0)
\* after the move; an internal entry takes the old separator as its key and
\* the moved child is re-parented.
MoveFirstToEndOf(pg, nb, nd) ==
  LET b == pg[nb]
      pid == b.parent
      pidx == ValueIndex(pg[pid], nb)
      moved == IF IsLeafPage(b) THEN b.ents[1]
               ELSE <<KeyAt(pg[pid], pidx), ValueAt(b, 0)>>
      b1 == [b EXCEPT !.ents = Tail(b.ents)]
      pg1 == [pg EXCEPT ![nd] = [@ EXCEPT !.ents = Append(@, moved)],
                        ![nb] = b1,
                        ![pid] = SetKeyAt(@, pidx, KeyAt(b1, 0))]
  IN IF IsLeafPage(b) THEN pg1 ELSE Reparent(pg1, {moved[2]}, nd)

\* leaf/internal move_last_to_front_of(target, index): neighbor nb is the
\* left sibling of nd; the parent's separator key for nd becomes
\* nb.key_at(nb.size - 1) (leaf) or nd.key_at(0) (internal) after the move.
MoveLastToFrontOf(pg, nb, nd, index) ==
  LET b == pg[nb]
      n == pg[nd]
      pid == n.parent
      pidx == ValueIndex(pg[pid], nd)
      moved == b.ents[GetSize(b)]
      b1 == [b EXCEPT !.ents = SubSeq(b.ents, 1, GetSize(b) - 1)]
      n1 == IF IsLeafPage(n) THEN [n EXCEPT !.ents = <<moved>> \o n.ents]
            ELSE [n EXCEPT !.ents =
                    <<moved>> \o SetKeyAt(n, 0, KeyAt(pg[pid], pidx)).ents]
      sep == IF IsLeafPage(n) THEN KeyAt(b1, GetSize(b1) - 1)
             ELSE KeyAt(n1, 0)
      pg1 == [pg EXCEPT ![nd] = n1, ![nb] = b1,
                        ![pid] = SetKeyAt(@, pidx, sep)]
  IN IF IsLeafPage(n) THEN pg1 ELSE Reparent(pg1, {moved[2]}, nd)

\* leaf/internal move_all_to(sibling, index of the separator in the parent):
\* all entries of nd are appended to rc; an internal entry 0 takes the
\* separator key from the parent and the children are re-parented; a leaf
\* merged into its left sibling hands its next_leaf to it.
MoveAllTo(pg, nd, rc, index) ==
  LET n == pg[nd]
      r == pg[rc]
      mid == KeyAt(pg[n.parent], index)
  IN IF IsLeafPage(n)
     THEN [pg EXCEPT ![rc] = [@ EXCEPT !.ents = r.ents \o n.ents,
                                       !.next = IF r.next = nd THEN n.next
                                                ELSE r.next],
                     ![nd] = [@ EXCEPT !.ents = <<>>]]
     ELSE Reparent(
            [pg EXCEPT ![rc] = [@ EXCEPT !.ents =
                                  r.ents \o SetKeyAt(n, 0, mid).ents],
                       ![nd] = [@ EXCEPT !.ents = <<>>]],
            ChildrenOf(n.ents), rc)

(* ------------------------------- removal ------------------------------- *)
\* BPlusTree::Redistribute(neighbor_node, node, index)
Redistribute(t, nb, nd, index) ==
  IF index = 0
  THEN [t EXCEPT !.pages = MoveFirstToEndOf(t.pages, nb, nd)]
  ELSE [t EXCEPT !.pages = MoveLastToFrontOf(t.pages, nb, nd, index)]

\* BPlusTree::Coalesce(neighbor_node, node, parent, index)
Coalesce(t, nb, nd, parent, index) ==
  IF index = 0
  THEN LET pg1 == MoveAllTo(t.pages, nd, nb, ValueIndex(t.pages[parent], nd))
       IN [t EXCEPT !.pages =
             [pg1 EXCEPT ![parent] =
                InternalRemove(@, ValueIndex(pg1[parent], nd))]]
  ELSE LET pg1 == MoveAllTo(t.pages, nd, nb, ValueIndex(t.pages[parent], nb))
           p1 == InternalRemove(pg1[parent], ValueIndex(pg1[parent], nb))
       IN [t EXCEPT !.pages =
             [pg1 EXCEPT ![parent] = SetValueAt(p1, ValueIndex(p1, nd), nb)]]

\* the leaf case of AdjustRoot: the condition under which the tree is emptied
RootLeafGone(n) == IsLeafPage(n) /\ GetSize(n) < GetMinSize(n)

\* an AdjustRoot without its internal case: a root with one child stays
RootNeverShrinks(n) == FALSE

\* the internal case of AdjustRoot: the root is replaced by its only child
RootHasOneChild(n) == ~IsLeafPage(n) /\ GetSize(n) = 1

\* BPlusTree::AdjustRoot(old_root_node): return value in .del
AdjustRoot(t, id) ==
  LET n == t.pages[id] IN
  IF RootLeafGone(n)
  THEN [UpdateRootPageId([t EXCEPT !.root = INVALID_PAGE_ID], FALSE)
          EXCEPT !.del = TRUE]
  ELSE IF RootHasOneChild(n)
  THEN LET c == ValueAt(n, 0)
           t1 == GetPage(t, c)
       IN [UnpinPage(
             UpdateRootPageId(
               [t1 EXCEPT !.root = c, !.pages[c].parent = INVALID_PAGE_ID],
               FALSE),
             c, TRUE)
           EXCEPT !.del = TRUE]
  ELSE [t EXCEPT !.del = FALSE]

\* a redistribution test that lets a sibling at min_size lend (when it has
\* an entry to keep)
CanLendAtMin(n) == GetSize(n) >= GetMinSize(n) /\ GetSize(n) > 1

\* the redistribution test of CoalesceOrRedistribute
CanLend(n) == GetSize(n) > GetMinSize(n)

\* CoalesceOrRedistribute, lines 297-303: an entry of the left sibling is
\* moved over, the sibling (without a transaction) and the parent unpinned
LendFromLeft(t, leftId, id, pid) ==
  LET t1 == Redistribute(t, leftId, id, 1)
      t2 == IF ~t.txn THEN UnpinPage(t1, leftId, TRUE) ELSE t1
  IN UnpinPage(t2, pid, TRUE)

\* CoalesceOrRedistribute, lines 314-322: an entry of the right sibling is
\* moved over; without a transaction both fetched siblings are unpinned
LendFromRight(t, leftId, rightId, id, pid) ==
  LET t1 == Redistribute(t, rightId, id, 0)
      t2 == IF ~t.txn THEN UnpinPage(t1, rightId, TRUE) ELSE t1
      t3 == IF ~t.txn /\ leftId # INVALID_PAGE_ID
            THEN UnpinPage(t2, leftId, FALSE)
            ELSE t2
  IN UnpinPage(t3, pid, TRUE)

\* CoalesceOrRedistribute, lines 329-344: the node is merged into the left
\* sibling when there is one, else into the right sibling; without a
\* transaction the fetched siblings are unpinned
Merge(t, leftId, rightId, id, pid) ==
  IF leftId # INVALID_PAGE_ID
  THEN LET t1 == Coalesce(t, leftId, id, pid, 0)
           t2 == IF ~t.txn THEN UnpinPage(t1, leftId, TRUE) ELSE t1
       IN IF ~t.txn /\ rightId # INVALID_PAGE_ID
          THEN UnpinPage(t2, rightId, FALSE)
          ELSE t2
  ELSE LET t1 == Coalesce(t, rightId, id, pid, 1)
       IN IF ~t.txn THEN UnpinPage(t1, rightId, TRUE) ELSE t1

\* CoalesceOrRedistribute, lines 347-355, after the call for the parent
\* returned .del: the parent is unpinned and, when it is to be deleted, put
\* into the deleted-page set or deleted
AfterParent(t, pid) ==
  LET t1 == UnpinPage(t, pid, TRUE)
  IN IF ~t.del THEN t1
     ELSE IF t.txn THEN [t1 EXCEPT !.deleted = @ \cup {pid}]
     ELSE [t1 EXCEPT !.pages = DeletePage(t1.pages, pid),
                     !.freed = Append(@, pid)]

RECURSIVE CoalesceOrRedistribute(_, _)
\* BPlusTree::CoalesceOrRedistribute(node): return value in .del
CoalesceOrRedistribute(t, id) ==
  LET node == t.pages[id] IN
  IF GetSize(node) >= GetMinSize(node) THEN [t EXCEPT !.del = FALSE]
  ELSE IF node.parent = INVALID_PAGE_ID THEN AdjustRoot(t, id)
  ELSE
    LET pid == node.parent
        parent == t.pages[pid]
        idx == ValueIndex(parent, id)
        hasLeft == idx - 1 >= 0
        hasRight == idx + 1 < GetSize(parent)
        leftId == IF hasLeft THEN ValueAt(parent, idx - 1)
                  ELSE INVALID_PAGE_ID
        rightId == IF hasRight THEN ValueAt(parent, idx + 1)
                   ELSE INVALID_PAGE_ID
        tP == FetchPage(t, pid)
        tL == IF hasLeft THEN GetPageLatched(tP, leftId, 2) ELSE tP
        tR == IF hasRight THEN GetPageLatched(tL, rightId, 2) ELSE tL
    IN IF hasLeft /\ CanLend(t.pages[leftId])
       THEN [LendFromLeft(tL, leftId, id, pid) EXCEPT !.del = FALSE]
       ELSE IF hasRight /\ CanLend(t.pages[rightId])
       THEN [LendFromRight(tR, leftId, rightId, id, pid) EXCEPT !.del = FALSE]
       ELSE IF ~hasLeft /\ ~hasRight
       THEN [tR EXCEPT !.fault = TRUE, !.del = FALSE]
       ELSE LET t1 == Merge(tR, leftId, rightId, id, pid)
                t2 == CoalesceOrRedistribute(t1, pid)
            IN [AfterParent(t2, pid) EXCEPT !.del = TRUE]

\* the underflow test of Remove
LeafUnderflows(n) == GetSize(n) < GetMinSize(n)

\* Remove, lines 240-255: a leaf to be deleted goes into the deleted-page
\* set or, without a transaction, is unpinned and deleted; else the work set
\* is cleared or the leaf unpinned
RemoveTail(t, id) ==
  IF t.del /\ ~t.txn
  THEN LET t1 == UnpinPage(t, id, TRUE)
       IN [t1 EXCEPT !.pages = DeletePage(t1.pages, id),
                     !.freed = Append(@, id)]
  ELSE LET t1 == IF t.del THEN [t EXCEPT !.deleted = @ \cup {id}] ELSE t
       IN IF t.txn THEN ClearTxnWorkSet(t1, 2, TRUE)
          ELSE UnpinPage(t1, id, TRUE)

\* BPlusTree::Remove
Remove(t, k) ==
  IF IsEmpty(t) THEN t
  ELSE LET t0 == GetLeafPage(t, k, 2)
           id == t0.leaf
           lp == RemoveAndDeleteRecord(t0.pages[id], k)
           t1 == [t0 EXCEPT !.pages[id] = lp]
           t2 == IF LeafUnderflows(lp) THEN CoalesceOrRedistribute(t1, id)
                 ELSE [t1 EXCEPT !.del = FALSE]
       IN RemoveTail(t2, id)

(* -------- removal among other threads: one latch wait at a time -------- *)
\* the siblings of page id under its parent (lines 287-289, 307-309)
LeftSibling(t, id) ==
  LET parent == t.pages[t.pages[id].parent]
      idx == ValueIndex(parent, id)
  IN IF idx - 1 >= 0 THEN ValueAt(parent, idx - 1) ELSE INVALID_PAGE_ID

RightSibling(t, id) ==
  LET parent == t.pages[t.pages[id].parent]
      idx == ValueIndex(parent, id)
  IN IF idx + 1 < GetSize(parent) THEN ValueAt(parent, idx + 1)
     ELSE INVALID_PAGE_ID

RECURSIVE CorUnwind(_)
\* CoalesceOrRedistribute, lines 346-356, of every call that waits for the
\* call for its parent (the parents are in .frames, innermost last): the
\* innermost call returned .del; each waiting call returns true
CorUnwind(t) ==
  IF t.frames = <<>> THEN [t EXCEPT !.wait = <<>>]
  ELSE LET pid == t.frames[Len(t.frames)]
       IN CorUnwind([AfterParent(t, pid) EXCEPT
                       !.del = TRUE,
                       !.frames = SubSeq(t.frames, 1, Len(t.frames) - 1)])

\* CoalesceOrRedistribute(node), lines 268-290 and 307-310, up to the latch
\* of the first sibling: the sibling is fetched and the call waits for its
\* latch (.wait names the wait, the node and the sibling)
CorEnter(t, nd) ==
  LET node == t.pages[nd] IN
  IF GetSize(node) >= GetMinSize(node)
  THEN CorUnwind([t EXCEPT !.del = FALSE])
  ELSE IF node.parent = INVALID_PAGE_ID THEN CorUnwind(AdjustRoot(t, nd))
  ELSE LET tP == FetchPage(t, node.parent)
           l == LeftSibling(t, nd)
           r == RightSibling(t, nd)
       IN IF l # INVALID_PAGE_ID
          THEN [FetchPage(tP, l) EXCEPT !.wait = <<"cor_left", nd, l>>]
          ELSE IF r # INVALID_PAGE_ID
          THEN [FetchPage(tP, r) EXCEPT !.wait = <<"cor_right", nd, r>>]
          ELSE [tP EXCEPT !.fault = TRUE, !.del = FALSE,
                          !.wait = <<"crashed">>]

\* CoalesceOrRedistribute, lines 329-346: the merge, then the call for the
\* parent
CorMerge(t, l, r, nd, pid) ==
  CorEnter([Merge(t, l, r, nd, pid) EXCEPT !.frames = Append(@, pid)], pid)

\* CoalesceOrRedistribute, lines 290-310, from the moment the latch of the
\* left sibling is granted
CorLeft(t) ==
  LET nd == t.wait[2]
      l == t.wait[3]
      pid == t.pages[nd].parent
      r == RightSibling(t, nd)
      t1 == AddIntoPageSet(LockFor(t, 2, l), l)
  IN IF CanLend(t.pages[l])
     THEN CorUnwind([LendFromLeft(t1, l, nd, pid) EXCEPT !.del = FALSE])
     ELSE IF r # INVALID_PAGE_ID
     THEN [FetchPage(t1, r) EXCEPT !.wait = <<"cor_right", nd, r>>]
     ELSE CorMerge(t1, l, INVALID_PAGE_ID, nd, pid)

\* CoalesceOrRedistribute, lines 310-346, from the moment the latch of the
\* right sibling is granted
CorRight(t) ==
  LET nd == t.wait[2]
      r == t.wait[3]
      pid == t.pages[nd].parent
      l == LeftSibling(t, nd)
      t1 == AddIntoPageSet(LockFor(t, 2, r), r)
  IN IF CanLend(t.pages[r])
     THEN CorUnwind([LendFromRight(t1, l, r, nd, pid) EXCEPT !.del = FALSE])
     ELSE CorMerge(t1, l, r, nd, pid)

\* Remove, lines 240-255, once CoalesceOrRedistribute has returned
RemoveEnd(t) ==
  IF t.wait = <<>> THEN [RemoveTail(t, t.leaf) EXCEPT !.wait = <<"done">>]
  ELSE t

(* ------------------------------ iterator ------------------------------- *)
RECURSIVE LeftMost(_, _)
\* BPlusTree::Begin(): descend along child_0 to the leftmost leaf
LeftMost(pg, id) ==
  IF pg[id].kind = "internal" THEN LeftMost(pg, ValueAt(pg[id], 0)) ELSE id

RECURSIVE BeginDescent(_, _)
\* BPlusTree::Begin(), lines 470-475: every page on the way down is fetched
BeginDescent(t, id) ==
  LET t1 == GetPage(t, id) IN
  IF t.pages[id].kind = "internal"
  THEN BeginDescent(t1, ValueAt(t.pages[id], 0))
  ELSE [t1 EXCEPT !.leaf = id]

\* BPlusTree::Begin(): the leaf the iterator starts at is in .leaf; fetching
\* INVALID_PAGE_ID on an empty tree yields no page ("fault" in .out)
Begin(t) ==
  IF t.root = INVALID_PAGE_ID THEN [t EXCEPT !.out = <<"fault", 0>>]
  ELSE [BeginDescent(t, t.root) EXCEPT !.out = <<"iterator", 0>>]

\* BPlusTree::Begin(key): the leaf of key is found and unpinned; a null
\* leaf (empty tree) is dereferenced
BeginAt(t, k) ==
  LET t1 == GetLeafPage([t EXCEPT !.txn = FALSE], k, 0) IN
  IF t1.leaf = INVALID_PAGE_ID THEN [t1 EXCEPT !.out = <<"fault", 0>>]
  ELSE [UnpinPage(t1, t1.leaf, FALSE) EXCEPT !.out = <<"iterator", 0>>]

RECURSIVE Chain(_, _, _)
\* the leaf pages the iterator visits from leaf id on, following next_leaf
\* (fuel bounds the walk when the chain does not end)
Chain(pg, id, fuel) ==
  IF id = INVALID_PAGE_ID \/ fuel = 0 THEN <<>>
  ELSE IF id \notin DOMAIN pg \/ pg[id].kind # "leaf" THEN <<id>>
  ELSE <<id>> \o Chain(pg, pg[id].next, fuel - 1)

(* ------------------------ page ids up to renaming ---------------------- *)
RECURSIVE Preorder(_, _)
RECURSIVE PreorderOf(_, _, _)
\* the pages of the subtree of id, parents before children, left to right
Preorder(pg, id) ==
  IF pg[id].kind = "internal" THEN <<id>> \o PreorderOf(pg, pg[id].ents, 1)
  ELSE <<id>>
PreorderOf(pg, es, i) ==
  IF i > Len(es) THEN <<>>
  ELSE Preorder(pg, es[i][2]) \o PreorderOf(pg, es, i + 1)

RECURSIVE Ascending(_)
\* the elements of a set of page ids in ascending order
Ascending(S) ==
  IF S = {} THEN <<>> ELSE <<SetMin(S)>> \o Ascending(S \ {SetMin(S)})

SeqRange(s) == {s[i] : i \in 1..Len(s)}

\* Page ids are opaque to the tree (only compared for equality), so a state
\* is kept up to a renaming of page ids: the pages of the tree are numbered
\* in tree order, pages outside the tree follow, and the id of a deleted
\* page that some page still names becomes DEAD_PAGE_ID (the disk manager
\* never hands a used id out again, so such an id names no page for ever).
Canonical(t) ==
  LET pg == t.pages
      inTree == IF t.root = INVALID_PAGE_ID THEN <<>>
                ELSE Preorder(pg, t.root)
      others == {q \in DOMAIN pg : pg[q].kind # "free"} \ SeqRange(inTree)
      order == inTree \o Ascending(others)
      ren(id) == IF id = INVALID_PAGE_ID THEN INVALID_PAGE_ID
                 ELSE IF id \in SeqRange(order)
                 THEN CHOOSE i \in 1..Len(order) : order[i] = id
                 ELSE DEAD_PAGE_ID
      renPage(n) ==
        [n EXCEPT !.parent = ren(n.parent), !.next = ren(n.next),
                  !.ents = IF n.kind = "internal"
                           THEN [i \in 1..Len(n.ents) |->
                                   <<n.ents[i][1], ren(n.ents[i][2])>>]
                           ELSE n.ents]
  IN [t EXCEPT !.root = ren(t.root),
               !.header = IF t.header = NO_RECORD THEN NO_RECORD
                          ELSE ren(t.header),
               !.pages = [q \in DOMAIN pg |->
                            IF q <= Len(order) THEN renPage(pg[order[q]])
                            ELSE FreePage],
               !.pins = [q \in DOMAIN pg |->
                           IF q <= Len(order) THEN t.pins[order[q]] ELSE 0],
               !.latches = {<<l[1], ren(l[2]), l[3]>> : l \in t.latches},
               !.page_set = [i \in 1..Len(t.page_set) |-> ren(t.page_set[i])],
               !.deleted = {ren(q) : q \in t.deleted}]

(* ------------------------------ the system ----------------------------- *)
\* the tree object and the buffer pool as one value; .freed lists the page
\* ids the call handed to DeletePage, in the order of the calls
\* (a call on behalf of thread 1, without a transaction, running alone,
\* with a buffer pool that has room)
Tree ==
  [root |-> root_page_id, pages |-> pages, header |-> header, cfg |-> cfg,
   ret |-> FALSE, newid |-> INVALID_PAGE_ID, del |-> FALSE, fault |-> FALSE,
   pins |-> pin_count, latches |-> latches, page_set |-> thr[1].page_set,
   deleted |-> thr[1].deleted, unp |-> {}, txn |-> FALSE, tid |-> 1,
   budget |-> Unlimited, oom |-> FALSE, leaf |-> INVALID_PAGE_ID,
   sib |-> INVALID_PAGE_ID, pend |-> <<>>, atomic |-> TRUE,
   out |-> <<"none", 0>>, orig |-> pages, held |-> {}, frames |-> <<>>,
   wait |-> <<>>, freed |-> <<>>]

\* the state of a thread that runs no operation
Idle ==
  [pc |-> "idle", op |-> "none", key |-> 0, page_set |-> <<>>,
   deleted |-> {}, cur |-> INVALID_PAGE_ID, node |-> INVALID_PAGE_ID,
   pend |-> <<>>, sib |-> INVALID_PAGE_ID, leaf |-> INVALID_PAGE_ID,
   frames |-> <<>>, started |-> FALSE, ins |-> FALSE, ret |-> "none",
   val |-> 0, held |-> {}, retried |-> FALSE]

\* the tree, the buffer pool and the transaction of the calling thread
\* after a call
Commit(t) ==
  /\ root_page_id' = t.root
  /\ pages' = t.pages
  /\ header' = t.header
  /\ pin_count' = t.pins
  /\ latches' = t.latches
  /\ thr' = [thr EXCEPT ![t.tid].page_set = t.page_set,
                        ![t.tid].deleted = t.deleted]

RECURSIVE Height(_, _)
\* number of levels below and including page id, along child_0
Height(pg, id) ==
  IF id = INVALID_PAGE_ID THEN 0
  ELSE IF pg[id].kind = "internal" THEN 1 + Height(pg, ValueAt(pg[id], 0))
  ELSE 1

RECURSIVE SumSizes(_, _)
\* number of entries held by the leaf pages among the pages in S
SumSizes(pg, S) ==
  IF S = {} THEN 0
  ELSE LET q == SetMin(S)
       IN (IF pg[q].kind = "leaf" THEN GetSize(pg[q]) ELSE 0)
          + SumSizes(pg, S \ {q})

\* enough free page ids for one insert (one split per level plus a new root)
RoomToInsert ==
  Cardinality(Allocable(pages)) >= Height(pages, root_page_id) + 1

NoOp == [op |-> "none", ret |-> "none", val |-> 0]

\* one call of Insert(key, value): the tree after it and what it returned
InsertCall(k, v) ==
  /\ RoomToInsert
  /\ LET t == Canonical(Insert(Tree, k, v)) IN
     /\ Commit(t)
     /\ last' = [op |-> "insert", ret |-> IF t.ret THEN "true" ELSE "false",
                 val |-> 0]
  /\ UNCHANGED <<cfg, unpinned>>

\* one call of Remove(key)
RemoveCall(k) ==
  /\ LET t == Canonical(Remove(Tree, k)) IN
     /\ Commit(t)
     /\ last' = [op |-> "remove", ret |-> IF t.fault THEN "fault" ELSE "void",
                 val |-> 0]
  /\ UNCHANGED <<cfg, unpinned>>

\* one call of GetValue(key): any of its outcomes
GetCall(k) ==
  /\ \E x \in GetValue(Tree, k) :
       /\ Commit(Canonical(x))
       /\ last' = [op |-> "get", ret |-> x.out[1], val |-> x.out[2]]
  /\ UNCHANGED <<cfg, unpinned>>

\* a buffer pool without pins or latches, threads that run nothing
PoolInit ==
  /\ pin_count = [q \in PageIds(cfg) |-> 0]
  /\ latches = {}
  /\ thr = [i \in Threads |-> Idle]
  /\ unpinned = {}

(* ---------- any sequence of calls on the scenario-sized tree ----------- *)
Init ==
  /\ cfg \in Configs
  /\ root_page_id = INVALID_PAGE_ID
  /\ pages = [q \in PageIds(cfg) |-> FreePage]
  /\ header = NO_RECORD
  /\ expected = <<>>
  /\ phase = "any"
  /\ last = NoOp
  /\ PoolInit

InsertOp(k, v) ==
  /\ SumSizes(pages, DOMAIN pages) < MaxStored
  /\ InsertCall(k, v)
  /\ UNCHANGED <<expected, phase>>

RemoveOp(k) == RemoveCall(k) /\ UNCHANGED <<expected, phase>>

GetOp(k) == GetCall(k) /\ UNCHANGED <<expected, phase>>

Next ==
  \/ \E k \in Keys : \E v \in ValuesOf(k) : InsertOp(k, v)
  \/ \E k \in Keys : RemoveOp(k)
  \/ \E k \in Keys : GetOp(k)

Spec == Init /\ [][Next]_vars

(* ------ round trips: distinct keys inserted, then removed, with gets --- *)
\* the sorted map the index implements: insert of an absent key
ExpectedInsert(k, v) ==
  [x \in DOMAIN expected \cup {k} |->
     IF x \in DOMAIN expected THEN expected[x] ELSE v]

\* the sorted map the index implements: remove
ExpectedRemove(k) == [x \in DOMAIN expected \ {k} |-> expected[x]]

TripInit ==
  /\ cfg \in Configs
  /\ root_page_id = INVALID_PAGE_ID
  /\ pages = [q \in PageIds(cfg) |-> FreePage]
  /\ header = NO_RECORD
  /\ expected = <<>>
  /\ phase = "insert"
  /\ last = NoOp
  /\ PoolInit

\* insert of a key that was not inserted before
TripInsert(k, v) ==
  /\ phase = "insert"
  /\ k \notin DOMAIN expected
  /\ InsertCall(k, v)
  /\ expected' = ExpectedInsert(k, v)
  /\ UNCHANGED phase

\* remove of a key that was inserted and not removed yet
TripRemove(k) ==
  /\ k \in DOMAIN expected
  /\ RemoveCall(k)
  /\ expected' = ExpectedRemove(k)
  /\ phase' = "remove"

TripGet(k) == GetCall(k) /\ UNCHANGED <<expected, phase>>

TripNext ==
  \/ \E k \in Keys : \E v \in ValuesOf(k) : TripInsert(k, v)
  \/ \E k \in Keys : TripRemove(k)
  \/ \E k \in Keys : TripGet(k)

TripSpec == TripInit /\ [][TripNext]_vars

(* ---------------- the tree alone, over smaller page sizes --------------- *)
TreeInit ==
  /\ cfg \in TreeConfigs
  /\ root_page_id = INVALID_PAGE_ID
  /\ pages = [q \in PageIds(cfg) |-> FreePage]
  /\ header = NO_RECORD
  /\ expected = <<>>
  /\ phase = "any"
  /\ last = NoOp
  /\ PoolInit

\* one call of Insert(key, value), the caller's view left out
TreeInsert(k) ==
  /\ RoomToInsert
  /\ SumSizes(pages, DOMAIN pages) < MaxTreeStored
  /\ Commit(Canonical(Insert(Tree, k, 100)))
  /\ UNCHANGED <<cfg, expected, phase, last, unpinned>>

\* one call of Remove(key), the caller's view left out
TreeRemove(k) ==
  /\ Commit(Canonical(Remove(Tree, k)))
  /\ UNCHANGED <<cfg, expected, phase, last, unpinned>>

TreeNext ==
  \/ \E k \in TreeKeys : TreeInsert(k)
  \/ \E k \in TreeKeys : TreeRemove(k)

TreeSpec == TreeInit /\ [][TreeNext]_vars

(* ------- calls with and without a transaction, pins and latches ------- *)
\* no page is pinned or latched, no transaction has pages in its sets
Quiescent ==
  /\ \A q \in DOMAIN pin_count : pin_count[q] = 0
  /\ latches = {}
  /\ \A i \in Threads : thr[i].page_set = <<>> /\ thr[i].deleted = {}

PinInit ==
  /\ cfg \in PinConfigs
  /\ root_page_id = INVALID_PAGE_ID
  /\ pages = [q \in PageIds(cfg) |-> FreePage]
  /\ header = NO_RECORD
  /\ expected = <<>>
  /\ phase = "any"
  /\ last = NoOp
  /\ PoolInit

\* the state after a call that ended in t, what it returned, and the dirty
\* flag and the changed-or-not of each of its UnpinPage calls
PinCommit(t, op, ret) ==
  /\ Commit(Canonical(t))
  /\ unpinned' = {<<u[2], u[3]>> : u \in t.unp}
  /\ last' = [op |-> op, ret |-> ret, val |-> 0]
  /\ UNCHANGED <<cfg, expected, phase>>

\* Insert(key, value, transaction) on a pool that serves b NewPage calls
PinInsert(k, txn, b) ==
  /\ Quiescent
  /\ RoomToInsert
  /\ SumSizes(pages, DOMAIN pages) < MaxPinStored
  /\ LET t == Insert([Tree EXCEPT !.txn = txn, !.budget = b], k, 100)
     IN PinCommit(t, "insert",
                  IF t.oom THEN "oom" ELSE IF t.ret THEN "true" ELSE "false")

\* Remove(key, transaction)
PinRemove(k, txn) ==
  /\ Quiescent
  /\ LET t == Remove([Tree EXCEPT !.txn = txn], k)
     IN PinCommit(t, "remove", IF t.fault THEN "fault" ELSE "void")

\* GetValue(key, result, transaction)
PinGet(k, txn) ==
  /\ Quiescent
  /\ \E x \in GetValue([Tree EXCEPT !.txn = txn], k) :
       PinCommit(x, "get", x.out[1])

\* Begin()
PinBegin ==
  /\ Quiescent
  /\ LET t == Begin(Tree) IN PinCommit(t, "begin", t.out[1])

\* Begin(key)
PinBeginAt(k) ==
  /\ Quiescent
  /\ LET t == BeginAt(Tree, k) IN PinCommit(t, "begin_at", t.out[1])

PinNext ==
  \/ \E k \in PinKeys : \E txn \in BOOLEAN : \E b \in AllocBudgets :
       PinInsert(k, txn, b)
  \/ \E k \in PinKeys : \E txn \in BOOLEAN : PinRemove(k, txn)
  \/ \E k \in PinKeys : \E txn \in BOOLEAN : PinGet(k, txn)
  \/ PinBegin
  \/ \E k \in PinKeys : PinBeginAt(k)

PinSpec == PinInit /\ [][PinNext]_vars

(* ---------- two threads, each with a transaction, interleaved ---------- *)
\* A thread runs from one wait to the next: it is granted one latch and runs
\* on until it asks for the next latch or has written root_page_id to a page
\* no latch protects; reads and writes of root_page_id_ outside a latch are
\* steps of their own.

\* the tree, the buffer pool and the transaction as thread i sees them
ThreadTree(i) ==
  [Tree EXCEPT !.tid = i, !.txn = TRUE, !.atomic = FALSE,
               !.page_set = thr[i].page_set, !.deleted = thr[i].deleted,
               !.leaf = thr[i].leaf, !.sib = thr[i].sib,
               !.pend = thr[i].pend, !.frames = thr[i].frames,
               !.ret = thr[i].ins,
               !.held = {l[2] : l \in {x \in latches :
                                        x[1] = i /\ x[3] = "w"}}]

\* what the caller of a finished operation gets: Insert returns true after
\* StartNewTree whatever InsertIntoLeaf returned (lines 70-71)
Returned(t, i) ==
  IF thr[i].op = "get" THEN t.out
  ELSE IF thr[i].op = "insert"
  THEN <<IF thr[i].started \/ t.ret THEN "true" ELSE "false", 0>>
  ELSE <<"void", 0>>

\* the shared state and the state of thread i after a step that ended in t
\* (.wait names where the thread is now and the page it waits for)
ConcCommit(t, i) ==
  LET pc == t.wait[1] IN
  /\ root_page_id' = t.root
  /\ pages' = t.pages
  /\ header' = t.header
  /\ pin_count' = t.pins
  /\ latches' = t.latches
  /\ thr' = [thr EXCEPT ![i] =
               [@ EXCEPT !.pc = pc,
                         !.cur = IF pc \in {"gl_lock", "snt_cas"}
                                 THEN t.wait[2]
                                 ELSE IF pc = "child_lock" THEN t.wait[2]
                                 ELSE IF pc \in {"cor_left", "cor_right"}
                                 THEN t.wait[3]
                                 ELSE INVALID_PAGE_ID,
                         !.node = IF pc \in {"cor_left", "cor_right"}
                                  THEN t.wait[2] ELSE INVALID_PAGE_ID,
                         !.page_set = t.page_set, !.deleted = t.deleted,
                         !.pend = t.pend, !.sib = t.sib, !.leaf = t.leaf,
                         !.frames = t.frames, !.ins = t.ret,
                         !.held = t.held,
                         !.started = @ \/ pc = "snt_cas",
                         !.retried = @ \/ (thr[i].pc = "gl_lock"
                                           /\ pc = "gl_lock"),
                         !.ret = IF pc = "done" THEN Returned(t, i)[1]
                                 ELSE "none",
                         !.val = IF pc = "done" THEN Returned(t, i)[2]
                                 ELSE 0]]
  /\ UNCHANGED <<cfg, expected, phase, last, unpinned>>

\* no thread has ended the process (failed assertion, invalid access)
Running == phase = "run" /\ \A j \in Threads : thr[j].pc # "crashed"

\* the latch of page id can be granted to a thread in this mode: a write
\* latch when nobody holds the page, a read latch when nobody writes it
CanLock(id, mode) ==
  IF mode = 0 THEN \A l \in latches : ~(l[2] = id /\ l[3] = "w")
  ELSE \A l \in latches : l[2] # id

\* BPInternalPage::Lookup as GetLeafPage calls it (line 631).  On a page
\* without entries (an internal page before PopulateNewRoot, a deleted page)
\* it reads what the array happens to hold: the id of some other page (what
\* the frame held before), or an id no page has (INVALID_PAGE_ID here; the
\* fetch then yields no page).
LookupOutcomes(t, id, k) ==
  IF t.pages[id].kind = "internal" /\ GetSize(t.pages[id]) > 0
  THEN {InternalLookup(t.pages[id], k)}
  ELSE {INVALID_PAGE_ID}
         \cup {q \in DOMAIN t.pages \ {id} : t.pages[q].kind # "free"}

\* the work at the leaf once its latch is held: GetValue lines 43-51,
\* InsertIntoLeaf lines 119-138, Remove lines 234-255
LeafWork(t, id, k, mode) ==
  IF mode = 0 THEN [LookupAtLeaf(t, id, k) EXCEPT !.wait = <<"done">>]
  ELSE IF mode = 1
  THEN LET t1 == InsertAtLeaf(t, id, k, 100)
       IN [t1 EXCEPT !.wait = IF t1.pend # <<>> THEN <<"newroot">>
                              ELSE <<"done">>]
  ELSE LET lp == RemoveAndDeleteRecord(t.pages[id], k)
           t1 == [t EXCEPT !.pages[id] = lp, !.leaf = id]
       IN IF LeafUnderflows(lp) THEN RemoveEnd(CorEnter(t1, id))
          ELSE RemoveEnd([t1 EXCEPT !.del = FALSE, !.wait = <<>>])

\* GetLeafPage, the loop at lines 629-635, with page id latched and in the
\* work set: at a leaf the caller goes on, else the child that Lookup named
\* (next) is fetched and the thread waits for its latch
AfterLatch(t, id, k, mode, next) ==
  IF IsLeafPage(t.pages[id]) THEN LeafWork(t, id, k, mode)
  ELSE IF next = INVALID_PAGE_ID THEN [t EXCEPT !.wait = <<"crashed">>]
  ELSE [GetPage(t, next) EXCEPT !.wait = <<"child_lock", next>>]

\* a root test that never sees a changed root
RootNeverChanged(t, id) == FALSE

\* GetLeafPage, line 619: the latched page is not the root any more
RootChanged(t, id) == id # t.root

\* GetLeafPage, lines 614-616 and 622-623: root_page_id_ is read and that
\* page fetched; no page has the id INVALID_PAGE_ID
ReadRoot(t) ==
  IF t.root = INVALID_PAGE_ID THEN [t EXCEPT !.wait = <<"crashed">>]
  ELSE [GetPage(t, t.root) EXCEPT !.wait = <<"gl_lock", t.root>>]

\* Insert line 69 and Remove line 227: the emptiness test; StartNewTree
\* lines 86-93 follow at once (they touch no shared page)
ConcStart(i) ==
  /\ Running /\ thr[i].pc = "start"
  /\ LET t == ThreadTree(i) IN
     IF ~IsEmpty(t) THEN ConcCommit([t EXCEPT !.wait = <<"gl_empty">>], i)
     ELSE IF thr[i].op = "remove"
     THEN ConcCommit([t EXCEPT !.wait = <<"done">>], i)
     ELSE LET t1 == NewTreePage(t)
          IN ConcCommit([t1 EXCEPT !.wait = <<"snt_cas", t1.newid>>], i)

\* StartNewTree, lines 95-100: the compare-and-set
ConcCas(i) ==
  /\ Running /\ thr[i].pc = "snt_cas"
  /\ LET t == NewTreeInstall(ThreadTree(i), thr[i].cur)
     IN /\ ConcCommit([t EXCEPT !.wait = <<"gl_empty">>], i)

\* GetLeafPage, line 612: nullptr for an empty tree.  GetValue dereferences
\* it (line 44), InsertIntoLeaf returns false (line 117), Remove fails its
\* assertion (line 232)
ConcEmpty(i) ==
  /\ Running /\ thr[i].pc = "gl_empty"
  /\ LET t == ThreadTree(i) IN
     IF ~IsEmpty(t) THEN ConcCommit([t EXCEPT !.wait = <<"gl_read">>], i)
     ELSE IF thr[i].op = "insert"
     THEN ConcCommit([t EXCEPT !.ret = FALSE, !.wait = <<"done">>], i)
     ELSE IF thr[i].op = "remove"
     THEN ConcCommit([t EXCEPT !.wait = <<"crashed">>], i)
     ELSE \E o \in NullLeafOutcomes :
            ConcCommit([t EXCEPT !.out = o,
                                 !.wait = IF o[1] = "fault"
                                          THEN <<"crashed">>
                                          ELSE <<"done">>], i)

\* GetLeafPage, lines 614-616
ConcRead(i) ==
  /\ Running /\ thr[i].pc = "gl_read"
  /\ ConcCommit(ReadRoot(ThreadTree(i)), i)

\* GetLeafPage, lines 618-627: the latch of the page read as root is
\* granted; when it is not the root any more it is released and the root
\* read again, else it joins the work set and the descent begins
ConcLockRoot(i) ==
  /\ Running /\ thr[i].pc = "gl_lock"
  /\ CanLock(thr[i].cur, ModeOf(thr[i].op))
  /\ LET id == thr[i].cur
         mode == ModeOf(thr[i].op)
         t1 == LockFor(ThreadTree(i), mode, id)
     IN IF RootChanged(t1, id)
        THEN ConcCommit(ReadRoot(UnpinPage(UnlockFor(t1, mode, id), id,
                                           FALSE)), i)
        ELSE \E next \in LookupOutcomes(t1, id, thr[i].key) :
               ConcCommit(AfterLatch(AddIntoPageSet(t1, id), id, thr[i].key,
                                     mode, next), i)

\* GetLeafPage, lines 637-660, then the next round of the loop or the leaf
ConcLockChild(i) ==
  /\ Running /\ thr[i].pc = "child_lock"
  /\ CanLock(thr[i].cur, ModeOf(thr[i].op))
  /\ LET id == thr[i].cur
         mode == ModeOf(thr[i].op)
         t1 == LatchChild(ThreadTree(i), id, mode)
     IN \E next \in LookupOutcomes(t1, id, thr[i].key) :
          ConcCommit(AfterLatch(t1, id, thr[i].key, mode, next), i)

\* InsertIntoParent, lines 189-194, and the rest of InsertIntoLeaf
ConcNewRoot(i) ==
  /\ Running /\ thr[i].pc = "newroot"
  /\ ConcCommit([InsertTail(NewRootPopulate(ThreadTree(i))) EXCEPT
                   !.wait = <<"done">>], i)

\* CoalesceOrRedistribute: the latch of the left sibling is granted
ConcCorLeft(i) ==
  /\ Running /\ thr[i].pc = "cor_left"
  /\ CanLock(thr[i].cur, 2)
  /\ ConcCommit(RemoveEnd(CorLeft(
       [ThreadTree(i) EXCEPT !.wait = <<"cor_left", thr[i].node,
                                        thr[i].cur>>])), i)

\* CoalesceOrRedistribute: the latch of the right sibling is granted
ConcCorRight(i) ==
  /\ Running /\ thr[i].pc = "cor_right"
  /\ CanLock(thr[i].cur, 2)
  /\ ConcCommit(RemoveEnd(CorRight(
       [ThreadTree(i) EXCEPT !.wait = <<"cor_right", thr[i].node,
                                        thr[i].cur>>])), i)

ConcInit ==
  /\ cfg \in ConcConfigs
  /\ root_page_id = INVALID_PAGE_ID
  /\ pages = [q \in PageIds(cfg) |-> FreePage]
  /\ header = NO_RECORD
  /\ expected = <<>>
  /\ phase = "setup"
  /\ last = NoOp
  /\ PoolInit

\* an insert that returned before the two threads meet (the keys of these
\* inserts come in ascending order)
ConcSetup(k) ==
  /\ phase = "setup"
  /\ SumSizes(pages, DOMAIN pages) < MaxConcStored
  /\ \A q \in DOMAIN pages : \A e \in SeqRange(pages[q].ents) :
       pages[q].kind = "leaf" => e[1] < k
  /\ Commit(Canonical(Insert(Tree, k, 100)))
  /\ UNCHANGED <<cfg, expected, phase, last, unpinned>>

\* the two threads call one operation each; the keys the tree holds at
\* that moment are kept in expected (which of two threads is called thread 1
\* makes no difference, so one naming of each pair of calls is taken)
ConcCall(o1, k1, o2, k2) ==
  /\ phase = "setup"
  /\ ModeOf(o1) < ModeOf(o2) \/ (o1 = o2 /\ k1 <= k2)
  /\ phase' = "run"
  /\ expected' = Ascending(UNION {{e[1] : e \in SeqRange(pages[q].ents)} :
                                  q \in {x \in DOMAIN pages :
                                         pages[x].kind = "leaf"}})
  /\ thr' = [i \in Threads |->
              [Idle EXCEPT !.op = IF i = 1 THEN o1 ELSE o2,
                           !.key = IF i = 1 THEN k1 ELSE k2,
                           !.pc = IF (IF i = 1 THEN o1 ELSE o2) = "get"
                                  THEN "gl_empty" ELSE "start"]]
  /\ UNCHANGED <<root_page_id, pages, header, cfg, last, pin_count, latches,
                 unpinned>>

ConcStep(i) ==
  \/ ConcStart(i)
  \/ ConcCas(i)
  \/ ConcEmpty(i)
  \/ ConcRead(i)
  \/ ConcLockRoot(i)
  \/ ConcLockChild(i)
  \/ ConcNewRoot(i)
  \/ ConcCorLeft(i)
  \/ ConcCorRight(i)

ConcNext ==
  \/ \E k \in ConcKeys : ConcSetup(k)
  \/ \E o1, o2 \in Ops : \E k1, k2 \in ConcKeys : ConcCall(o1, k1, o2, k2)
  \/ \E i \in Threads : ConcStep(i)

ConcSpec == ConcInit /\ [][ConcNext]_vars

\* thread i waits for a latch that cannot be granted now
Blocked(i) ==
  \/ /\ thr[i].pc \in {"gl_lock", "child_lock"}
     /\ ~CanLock(thr[i].cur, ModeOf(thr[i].op))
  \/ /\ thr[i].pc \in {"cor_left", "cor_right"}
     /\ ~CanLock(thr[i].cur, 2)

\* both threads have returned to their callers
AllDone == phase = "run" /\ \A i \in Threads : thr[i].pc = "done"

\* a sorted map with unique keys: what an operation returns on the key set
\* S and the key set after it
SeqRet(S, op, k) ==
  IF op = "insert" THEN (IF k \in S THEN "false" ELSE "true")
  ELSE IF op = "get" THEN (IF k \in S THEN "found" ELSE "absent")
  ELSE "void"

SeqNext(S, op, k) ==
  IF op = "insert" THEN S \cup {k}
  ELSE IF op = "remove" THEN S \ {k}
  ELSE S

(* ------------------------- views of the tree --------------------------- *)
\* the pages reachable from the root
InTree ==
  IF root_page_id = INVALID_PAGE_ID THEN {}
  ELSE SeqRange(Preorder(pages, root_page_id))

\* the keys held by the leaf pages of the tree
StoredKeys ==
  UNION {{pages[q].ents[i][1] : i \in 1..Len(pages[q].ents)}
         : q \in {x \in InTree : pages[x].kind = "leaf"}}

\* the leaf pages an iteration from Begin() visits, in order
BeginChain ==
  IF root_page_id = INVALID_PAGE_ID THEN <<>>
  ELSE Chain(pages, LeftMost(pages, root_page_id),
             Cardinality(DOMAIN pages) + 1)

RECURSIVE ChainKeys(_, _)
\* the keys an iteration yields over the leaf pages c[i..]
ChainKeys(c, i) ==
  IF i > Len(c) THEN <<>>
  ELSE (IF c[i] \in DOMAIN pages /\ pages[c[i]].kind = "leaf"
        THEN [j \in 1..Len(pages[c[i]].ents) |-> pages[c[i]].ents[j][1]]
        ELSE <<>>) \o ChainKeys(c, i + 1)

RECURSIVE SubtreeKeys(_)
\* the keys stored under page id
SubtreeKeys(id) ==
  IF pages[id].kind = "internal"
  THEN UNION {SubtreeKeys(pages[id].ents[i][2]) : i \in 1..Len(pages[id].ents)}
  ELSE {pages[id].ents[i][1] : i \in 1..Len(pages[id].ents)}

RECURSIVE LeafDepths(_, _)
\* the depths, counted from page id at depth d, of the leaves under it
LeafDepths(id, d) ==
  IF pages[id].kind = "internal"
  THEN UNION {LeafDepths(pages[id].ents[i][2], d + 1)
              : i \in 1..Len(pages[id].ents)}
  ELSE {d}

(* ------------------------------- claims -------------------------------- *)
\* C1: for inserts of distinct keys into an empty tree, after each insert
\* get(k) returns the inserted value for every key inserted so far and
\* absent for every key never inserted.
C1_GetAfterInserts ==
  (phase = "insert" /\ DOMAIN expected # {}) =>
    \A k \in Keys :
      GetOutcomes(Tree, k) = IF k \in DOMAIN expected
                          THEN {<<"found", expected[k]>>}
                          ELSE {<<"absent", 0>>}

\* C2: insert(k, v) on a tree that contains k returns false and changes
\* nothing; insert of an absent key returns true and makes k present.
C2_DuplicateInsert ==
  [][\A k \in Keys : \A v \in ValuesOf(k) :
       InsertOp(k, v) =>
         IF k \in StoredKeys
         THEN last'.ret = "false"
              /\ UNCHANGED <<root_page_id, pages, header>>
         ELSE last'.ret = "true" /\ k \in StoredKeys']_vars

\* C3: remove(k) of a key that is not in the tree changes nothing: the key
\* set, root_page_id and the pages stay as they are, no page is deleted.
C3_RemoveAbsent ==
  [][\A k \in Keys :
       (RemoveOp(k) /\ k \notin StoredKeys) =>
         UNCHANGED <<root_page_id, pages, header>>]_vars

\* C4: get(k) for a key that is not stored returns absent without faulting
\* in every tree state, the empty tree included.
C4_GetAbsent ==
  [][\A k \in Keys :
       (GetOp(k) /\ k \notin StoredKeys) => last'.ret = "absent"]_vars

\* C5: the tree becomes empty only when the root is a leaf of size 0 after
\* the removal; a root leaf that still holds keys stays the root.
C5_EmptyOnlyAtSizeZero ==
  [][(root_page_id # INVALID_PAGE_ID /\ root_page_id' = INVALID_PAGE_ID) =>
       \E k \in Keys :
         /\ RemoveOp(k)
         /\ IsLeafPage(pages[root_page_id])
         /\ GetSize(RemoveAndDeleteRecord(pages[root_page_id], k)) = 0]_vars

\* C6: round trip: while keys inserted before are being removed, the tree
\* is empty exactly when all of them are removed, and it holds exactly the
\* keys not removed yet.
C6_RoundTrip ==
  phase = "remove" =>
    /\ (root_page_id = INVALID_PAGE_ID <=> DOMAIN expected = {})
    /\ StoredKeys = DOMAIN expected

\* C7: after every insert or remove the leaf chain from the leftmost leaf
\* visits only live leaf pages and yields exactly the inserted-minus-removed
\* keys in strictly ascending order.
C7_LeafChain ==
  LET c == BeginChain
      ks == ChainKeys(c, 1)
  IN /\ \A i \in 1..Len(c) : c[i] \in DOMAIN pages /\ pages[c[i]].kind = "leaf"
     /\ \A i \in 1..(Len(ks) - 1) : ks[i] < ks[i + 1]
     /\ SeqRange(ks) = DOMAIN expected

\* C8: after every operation every non-root node of the tree satisfies
\* min_size <= size <= max_size.
C8_NodeSizes ==
  \A q \in InTree \ {root_page_id} :
    /\ GetMinSize(pages[q]) <= GetSize(pages[q])
    /\ GetSize(pages[q]) <= GetMaxSize(pages[q])

\* a tree of three levels with a non-root internal node and a leaf at
\* min_size, after a remove brought one back from below min_size
C8_Witness ==
  /\ Height(pages, root_page_id) = 3
  /\ \E q \in InTree \ {root_page_id} :
       pages[q].kind = "internal" /\ GetSize(pages[q]) = GetMinSize(pages[q])
  /\ \E q \in InTree :
       pages[q].kind = "leaf" /\ GetSize(pages[q]) = GetMaxSize(pages[q])

\* C9: in every internal node, for every entry i >= 1, each key under
\* child_i is >= key_i and each key under child_(i-1) is < key_i.
C9_Separators ==
  \A q \in InTree :
    pages[q].kind = "internal" =>
      \A i \in 1..(GetSize(pages[q]) - 1) :
        /\ \A x \in SubtreeKeys(ValueAt(pages[q], i)) :
             x >= KeyAt(pages[q], i)
        /\ \A x \in SubtreeKeys(ValueAt(pages[q], i - 1)) :
             x < KeyAt(pages[q], i)

\* C10: after every insert or remove all leaves are at the same depth.
C10_EqualDepth ==
  root_page_id # INVALID_PAGE_ID =>
    Cardinality(LeafDepths(root_page_id, 1)) = 1

\* a tree of three levels: the root and an internal node below it have split
C10_Witness ==
  /\ root_page_id # INVALID_PAGE_ID
  /\ LeafDepths(root_page_id, 1) = {3}

\* C12: after every completed mutation the root_page_id recorded in the
\* header page equals the in-memory root_page_id (no record exists only
\* while nothing was ever installed), also when the tree is emptied by
\* removes and started again.
C12_HeaderMatchesRoot ==
  IF header = NO_RECORD THEN root_page_id = INVALID_PAGE_ID
  ELSE header = root_page_id

\* C11: after each public operation (get, insert, remove, begin, begin_at)
\* returns, with or without a transaction, no page is pinned more than before
\* the operation, no page is latched and the transaction's page set is empty.
C11_PinLatchBalance ==
  last.ret \notin {"none", "oom", "fault"} => Quiescent

\* C16: when new_page fails during an insert, the out-of-memory fault
\* reaches the caller with no page latched by the operation, its work set
\* empty and the pin counts back to their values before the operation.
C16_OomReleasesAll ==
  last.ret = "oom" => Quiescent

\* C17: for every unpin_page call issued by get, insert and remove, the
\* dirty flag is true if and only if the page was changed by the operation.
C17_DirtyIffChanged ==
  (last.op \in {"get", "insert", "remove"} /\ last.ret \notin {"oom", "fault"})
    => \A u \in unpinned : u[1] <=> u[2]

\* C13: no deadlock: in no reachable state of concurrent get, insert and
\* remove with transactions does a thread wait for a page latch while every
\* thread either waits for a latch that cannot be granted or has returned
\* (no cycle of waiting threads, no latch left behind by a finished
\* operation), so some operation can always go on.
C13_NoDeadlock ==
  Running =>
    ~(/\ \E i \in Threads : Blocked(i)
      /\ \A j \in Threads : thr[j].pc = "done" \/ Blocked(j))

\* a remove waits for the latch of a sibling that the other thread holds,
\* while holding its own node and the parent
C13_Witness ==
  /\ Running
  /\ \E i \in Threads :
       /\ thr[i].pc \in {"cor_left", "cor_right"}
       /\ Blocked(i)
       /\ Len(thr[i].page_set) >= 2
       /\ \E j \in Threads \ {i} : \E l \in latches :
            l[1] = j /\ l[2] = thr[i].cur

\* C14: when the threads insert disjoint keys into a tree that was empty
\* and holds only keys inserted before, then once all inserts have returned
\* the tree holds exactly the union of the inserted keys.
C14_DisjointInserts ==
  (/\ AllDone
   /\ \A i \in Threads : thr[i].op = "insert"
   /\ thr[1].key # thr[2].key
   /\ \A i \in Threads : thr[i].key \notin SeqRange(expected))
    => StoredKeys = SeqRange(expected) \cup {thr[i].key : i \in Threads}

\* C15: the return value of every insert matches some sequential order of
\* the two operations on a sorted map with unique keys (two inserts of one
\* key never both return true, an insert returns false only when the key is
\* present).
C15_Linearizable ==
  AllDone =>
    \E a \in Threads : \E b \in Threads \ {a} :
      LET S0 == SeqRange(expected)
          S1 == SeqNext(S0, thr[a].op, thr[a].key)
      IN /\ thr[a].op = "insert" =>
              thr[a].ret = SeqRet(S0, thr[a].op, thr[a].key)
         /\ thr[b].op = "insert" =>
              thr[b].ret = SeqRet(S1, thr[b].op, thr[b].key)

\* C18: whenever root_page_id names an internal page, that page holds both
\* children and the children name it as their parent, so no concurrent
\* operation can read an incomplete root.
C18_RootComplete ==
  (phase = "run" /\ root_page_id # INVALID_PAGE_ID
   /\ pages[root_page_id].kind = "internal")
    => /\ GetSize(pages[root_page_id]) >= 2
       /\ \A c \in ChildrenOf(pages[root_page_id].ents) :
            pages[c].parent = root_page_id

\* C19: a traversal with a transaction puts the page it latched as root into
\* its work set only when that page is root_page_id at that moment (else it
\* releases latch and pin and reads the root again), and root_page_id is
\* changed only by the thread that holds the write latch of the root page.
C19_RootRecheck ==
  [][phase = "run" =>
      \A i \in Threads :
        /\ (/\ thr[i].pc = "gl_lock"
            /\ thr'[i].pc # "gl_lock"
            /\ ~(thr'[i].pc = "crashed" /\ thr'[i].page_set = <<>>))
             => thr[i].cur = root_page_id
        /\ (/\ thr'[i] # thr[i]
            /\ root_page_id # INVALID_PAGE_ID
            /\ root_page_id' # root_page_id)
             => (/\ root_page_id \in thr'[i].held
                 /\ \A l \in latches : l[2] = root_page_id => l[1] = i)]_vars

\* a traversal found the root changed after it was granted the latch of the
\* page it had read as root, released it, and now holds the root in its work
\* set
C19_Witness ==
  /\ Running
  /\ \E i \in Threads :
       /\ thr[i].retried
       /\ thr[i].page_set # <<>>
       /\ thr[i].page_set[1] = root_page_id

\* the work set of thread i is a path of pages it has write-latched
PathOf(i) ==
  LET ps == thr[i].page_set IN
  /\ \A n \in 1..Len(ps) : <<i, ps[n], "w">> \in latches
  /\ \A n \in 1..(Len(ps) - 1) :
       /\ pages[ps[n]].kind = "internal"
       /\ ps[n + 1] \in ChildrenOf(pages[ps[n]].ents)

\* C20: crabbing safety: while a write operation descends its work set is a
\* contiguous path of write-latched pages, and every page of the tree that
\* a step of an operation changes is write-latched by the thread that takes
\* the step.
C20_CrabbingSafety ==
  [][phase = "run" =>
      /\ \A i \in Threads :
           (thr[i].op \in {"insert", "remove"} /\ thr[i].pc = "child_lock")
             => PathOf(i)
      /\ \A q \in InTree :
           (pages'[q] # pages[q] /\ pages'[q].kind # "free")
             => \E i \in Threads : thr'[i] # thr[i] /\ q \in thr'[i].held]_vars

\* C23: parent linkage: after every completed insert or remove, every child
\* id stored in an internal page of the tree names a page whose
\* parent_page_id is that internal page, and the root page has
\* parent_page_id = INVALID_PAGE_ID.
C23_ParentLinkage ==
  root_page_id # INVALID_PAGE_ID =>
    /\ pages[root_page_id].parent = INVALID_PAGE_ID
    /\ \A p \in InTree :
         pages[p].kind = "internal" =>
           \A c \in ChildrenOf(pages[p].ents) :
             c \in DOMAIN pages /\ pages[c].parent = p

\* a tree of three levels in which an internal page made by an internal
\* split (not the first child of the root) is the parent of its leaves
C23_Witness ==
  /\ root_page_id # INVALID_PAGE_ID
  /\ pages[root_page_id].kind = "internal"
  /\ \E i \in 2..GetSize(pages[root_page_id]) :
       LET p == ValueAt(pages[root_page_id], i - 1) IN
         /\ p \in DOMAIN pages
         /\ pages[p].kind = "internal"
         /\ pages[p].parent = root_page_id
         /\ \A c \in ChildrenOf(pages[p].ents) :
              /\ c \in DOMAIN pages
              /\ IsLeafPage(pages[c])
              /\ pages[c].parent = p

\* how often a call handed page id to DeletePage
FreedCount(t, id) == Cardinality({i \in DOMAIN t.freed : t.freed[i] = id})

\* Remove(k) promoted the only child left under the internal root r: the
\* child is the root, has no parent, is in the header record, and r was
\* handed to DeletePage exactly once
Promoted(t, r) ==
  /\ GetSize(pages[r]) = 2
  /\ t.root \in ChildrenOf(pages[r].ents)
  /\ t.pages[t.root].kind # "free"
  /\ t.pages[t.root].parent = INVALID_PAGE_ID
  /\ t.header = t.root
  /\ FreedCount(t, r) = 1
  /\ t.pages[r].kind = "free"

\* Remove(k) left the internal root r, with two or more children, in place
LeftInPlace(t, r) ==
  /\ t.root = r
  /\ t.pages[r].kind = "internal"
  /\ GetSize(t.pages[r]) >= 2
  /\ t.pages[r].parent = INVALID_PAGE_ID
  /\ FreedCount(t, r) = 0

\* C22: root promotion: a remove (with or without a transaction) on a tree
\* with an internal root either leaves the root with two or more children in
\* place, or leaves it with exactly one child, and then that child becomes
\* the root (root_page_id and the header record name it, its parent is
\* INVALID_PAGE_ID) and the old root page is handed to DeletePage exactly
\* once.
C22_RootPromotion ==
  (root_page_id # INVALID_PAGE_ID /\ pages[root_page_id].kind = "internal")
    => \A k \in TreeKeys : \A txn \in BOOLEAN :
         LET t == Remove([Tree EXCEPT !.txn = txn], k)
         IN Promoted(t, root_page_id) \/ LeftInPlace(t, root_page_id)

\* a tree whose internal root has two children, in which the remove of some
\* key merges them and promotes the surviving child, with and without a
\* transaction
C22_Witness ==
  /\ root_page_id # INVALID_PAGE_ID
  /\ pages[root_page_id].kind = "internal"
  /\ \E k \in TreeKeys : \A txn \in BOOLEAN :
       LET t == Remove([Tree EXCEPT !.txn = txn], k)
       IN /\ Promoted(t, root_page_id)
          /\ t.pages[t.root].kind = "internal"

\* what a page holds: the records of a leaf, the children of an internal page
Items(n) ==
  IF IsLeafPage(n) THEN {n.ents[i] : i \in DOMAIN n.ents}
  ELSE ChildrenOf(n.ents)

\* how often page n holds item x
ItemCount(n, x) ==
  Cardinality({i \in DOMAIN n.ents :
                 (IF IsLeafPage(n) THEN n.ents[i] ELSE n.ents[i][2]) = x})

\* from t to u one entry went from sibling nb (its last entry when nb is the
\* left sibling, its first when it is the right one) to node nd; no other
\* size changed, no page was handed to DeletePage, the call returned false
LentOne(t, u, nb, nd, fromLeft) ==
  LET b == t.pages[nb]
      n == t.pages[nd]
      e == IF fromLeft THEN b.ents[GetSize(b)] ELSE b.ents[1]
      x == IF IsLeafPage(b) THEN e ELSE e[2]
  IN /\ GetSize(u.pages[nb]) = GetSize(b) - 1
     /\ GetSize(u.pages[nd]) = GetSize(n) + 1
     /\ \A y \in Items(b) \cup Items(n) :
          /\ ItemCount(u.pages[nb], y) =
               ItemCount(b, y) - (IF y = x THEN 1 ELSE 0)
          /\ ItemCount(u.pages[nd], y) =
               ItemCount(n, y) + (IF y = x THEN 1 ELSE 0)
     /\ \A q \in DOMAIN t.pages \ {nb, nd} :
          /\ u.pages[q].kind = t.pages[q].kind
          /\ Len(u.pages[q].ents) = Len(t.pages[q].ents)
     /\ u.freed = t.freed
     /\ u.deleted = t.deleted
     /\ u.del = FALSE

\* from t to m node nd was merged into sibling sv: the sibling holds all
\* entries of both, and the parent lost exactly one entry, that of nd
MergedInto(t, m, sv, nd) ==
  LET pid == t.pages[nd].parent
  IN /\ GetSize(m.pages[sv]) = GetSize(t.pages[sv]) + GetSize(t.pages[nd])
     /\ \A y \in Items(t.pages[sv]) \cup Items(t.pages[nd]) :
          ItemCount(m.pages[sv], y) =
            ItemCount(t.pages[sv], y) + ItemCount(t.pages[nd], y)
     /\ GetSize(m.pages[pid]) = GetSize(t.pages[pid]) - 1
     /\ Items(m.pages[pid]) = Items(t.pages[pid]) \ {nd}

\* after the merge (state m) the call for parent pid ended in u: the merged
\* sibling sv is as the merge left it, the call returned true, and the
\* parent was dealt with exactly when it underflowed
ParentHandled(m, u, sv, pid) ==
  LET p == m.pages[pid]
  IN /\ u.pages[sv].ents = m.pages[sv].ents
     /\ u.del = TRUE
     /\ IF GetSize(p) >= GetMinSize(p)
        THEN /\ u.pages[pid] = p
             /\ u.freed = m.freed
             /\ u.deleted = m.deleted
        ELSE IF p.parent # INVALID_PAGE_ID
        THEN \/ GetSize(u.pages[pid]) = GetSize(p) + 1
             \/ /\ GetSize(u.pages[pid]) = 0
                /\ (pid \in u.deleted \/ FreedCount(u, pid) = 1)
        ELSE TRUE

RECURSIVE CorOk(_, _)
\* the call CoalesceOrRedistribute(id) in t, and the calls it makes for the
\* parents, choose and act as C21 says
CorOk(t, id) ==
  LET node == t.pages[id] IN
  IF GetSize(node) >= GetMinSize(node) \/ node.parent = INVALID_PAGE_ID
  THEN TRUE
  ELSE
    LET pid == node.parent
        l == LeftSibling(t, id)
        r == RightSibling(t, id)
        u == CoalesceOrRedistribute(t, id)
        m == Merge(t, l, r, id, pid)
        sv == IF l # INVALID_PAGE_ID THEN l ELSE r
    IN IF l # INVALID_PAGE_ID /\ GetSize(t.pages[l]) > GetMinSize(t.pages[l])
       THEN LentOne(t, u, l, id, TRUE)
       ELSE IF r # INVALID_PAGE_ID
               /\ GetSize(t.pages[r]) > GetMinSize(t.pages[r])
       THEN LentOne(t, u, r, id, FALSE)
       ELSE IF sv = INVALID_PAGE_ID THEN u.fault
       ELSE /\ MergedInto(t, m, sv, id)
            /\ ParentHandled(m, u, sv, pid)
            /\ CorOk(m, pid)

\* Remove(k) up to its call of CoalesceOrRedistribute (lines 226-235): the
\* leaf is found and the record removed; the leaf is in .leaf
BeforeCor(t, k) ==
  LET t0 == GetLeafPage(t, k, 2)
  IN [t0 EXCEPT !.pages[t0.leaf] = RemoveAndDeleteRecord(@, k)]

====
